---- MODULE Spec2Model ----
(***************************************************************************)
(* Probability Shadow Pathfinding System: the grid of drones, their         *)
(* probability shadows, the pairwise collision risk and the rerouting       *)
(* state machine of src/src/simulation/grid.py, src/src/core/drone.py,      *)
(* src/src/core/shadow.py and src/src/core/metrics.py.                      *)
(*                                                                         *)
(* Numbers are fixed point.  Lengths are in hundredths of a length unit    *)
(* (0.1 is 10, 5.0 is 500), risks, weights and unit vectors in thousandths *)
(* (0.25 is 250), time in thousandths of a time unit where it is scaled.   *)
(* The draws of numpy's random generator are nondeterministic choices from *)
(* small sets.  A shadow has prediction_steps = 2 prediction instants      *)
(* where the source has 20.  update() runs as BeginUpdate, one UpdateDrone *)
(* per drone in the dict's order and AppendMetrics, sequenced by `cursor`; *)
(* cursor = 0 exactly between two calls.  An exception ends the update()   *)
(* where it is raised and is kept in `raised`.  The module names the       *)
(* source uses without importing them (time and List in grid.py, np in     *)
(* metrics.py) are taken as bound.                                         *)
(***************************************************************************)
EXTENDS Integers, Sequences, FiniteSets, TLC

\* ------------------------------------------------------------------ numbers

\* thousandths: the scale of risks, weights, unit vectors
Milli == 10 * 100

Min2(x, y) == IF x < y THEN x ELSE y

Max2(x, y) == IF x > y THEN x ELSE y

\* a / b rounded to the nearest integer, b > 0
RDiv(a, b) == IF a >= 0 THEN (2 * a + b) \div (2 * b) ELSE -((2 * (-a) + b) \div (2 * b))

RECURSIVE SqrtSearch(_, _, _)
\* the largest r in lo..hi with r * r <= n
SqrtSearch(n, lo, hi) ==
    IF lo >= hi THEN lo
    ELSE LET mid == (lo + hi + 1) \div 2
         IN IF mid * mid <= n THEN SqrtSearch(n, mid, hi) ELSE SqrtSearch(n, lo, mid - 1)

\* floor of the square root
ISqrt(n) ==
    IF n < 262144 THEN SqrtSearch(n, 0, 511) ELSE SqrtSearch(n, 512, 46340)

\* np.linalg.norm, rounded to the nearest hundredth
Sqrt(n) ==
    LET r == ISqrt(n) IN IF n - r * r > r THEN r + 1 ELSE r

\* ------------------------------------------------------------------ vectors

Zero3 == <<0, 0, 0>>

VAdd(u, v) == <<u[1] + v[1], u[2] + v[2], u[3] + v[3]>>

VSub(u, v) == <<u[1] - v[1], u[2] - v[2], u[3] - v[3]>>

\* squared Euclidean length
Norm2(v) == v[1] * v[1] + v[2] * v[2] + v[3] * v[3]

\* np.linalg.norm(v)
Norm(v) == Sqrt(Norm2(v))

\* v * num / den, componentwise
VScale(v, num, den) == <<RDiv(v[1] * num, den), RDiv(v[2] * num, den), RDiv(v[3] * num, den)>>

\* np.clip(v, 0, hi)
Clip(v, hi) ==
    <<Max2(0, Min2(v[1], hi[1])), Max2(0, Min2(v[2], hi[2])), Max2(0, Min2(v[3], hi[3]))>>

\* direction / distance as a unit vector in thousandths; the zero vector stays zero
Unit(v) ==
    LET d == Norm(v) IN IF d > 0 THEN VScale(v, Milli, d) ELSE v

\* ------------------------------------------------------------------ configuration

\* ProbabilityShadowGrid.__init__: the volume's bounds (an argument of the constructor)
space_size == <<2000, 2000, 1000>>

\* self.prediction_steps (20 in the source; the number of prediction instants here)
prediction_steps == 2

\* self.uncertainty_growth_rate = 0.08, in thousandths
uncertainty_growth_rate == 80

\* self.collision_threshold = 0.25, in thousandths
collision_threshold == 250

\* self.safe_distance = 4.0
safe_distance == 400

\* self.time_horizon = 6.0, in thousandths
time_horizon == 6000

\* self.rerouting_timeout = 50
rerouting_timeout == 50

\* DroneState.initialize: initial_uncertainty = 0.1, the diagonal of the covariance
\* np.eye(3) * 0.1, in squared hundredths
initial_uncertainty == 1000

\* _update_drone: the arrival distance 0.1
arrival_distance == 10

\* _update_drone: the nominal speed 1.5
nominal_speed == 150

\* ------------------------------------------------------------------ random draws

\* The outcomes of one call of np.random.multivariate_normal that the model
\* distinguishes: the cloud of a draw is displaced as a whole by Shift(draw).
Draws == {1, 2}

\* the outcomes a shadow is generated under on its own: draw 3 puts every sample so far
\* from the predicted position that its density is 0
DrawsShadow == Draws \cup {3}

Shift(draw) ==
    IF draw = 1 THEN <<-100, 0, 0>> ELSE IF draw = 2 THEN <<100, 0, 0>> ELSE <<1000, 0, 0>>

\* the scatter of the samples of one prediction step around the cloud's centre
Jitter ==
    << <<30, 0, 0>>, <<-30, 0, 0>>, <<0, 30, 0>>, <<0, 0, -30>>, <<0, -30, 30>>,
       <<60, 0, 0>>, <<-60, 30, 0>> >>

\* the j-th sample of step `step` of a draw, relative to the predicted position
SampleOffset(draw, step, j) == VAdd(Shift(draw), Jitter[((j + step) % Len(Jitter)) + 1])

\* the outcome of np.random.normal(0, 0.05) in the speed that the model follows
SpeedNoise == {5}

\* ------------------------------------------------------------------ shadow.py

\* exp(-k / 10) for k = 0..9 and exp(-k) for k = 0..5, in thousandths
exp_tenths == <<1000, 905, 819, 741, 670, 607, 549, 497, 449, 407>>

exp_units == <<1000, 368, 135, 50, 18, 7>>

\* exp(-n / 10) in thousandths
ExpNeg(n) ==
    IF n <= 0 THEN Milli
    ELSE IF n \div 10 >= Len(exp_units) THEN 0
    ELSE (exp_units[(n \div 10) + 1] * exp_tenths[(n % 10) + 1]) \div Milli

\* time_steps[step] of np.linspace(0, time_horizon, prediction_steps), in thousandths
TimeStep(step) ==
    IF prediction_steps <= 1 THEN 0 ELSE (time_horizon * step) \div (prediction_steps - 1)

\* step_covariance = covariance * (1 + uncertainty_growth_rate * time_steps[step])
StepCovariance(covariance, step) ==
    (covariance * (Milli + (uncertainty_growth_rate * TimeStep(step)) \div Milli)) \div Milli

\* num_points = 5 + step * 2
NumPoints(step) == 5 + step * 2

\* mvn.pdf(point) up to the constant factor: exp(-r^2 / (2 * variance)), in thousandths
Density(offset, variance) == ExpNeg((Norm2(offset) * 10) \div (2 * variance))

RECURSIVE SeqMax(_, _)
\* np.max over the first n entries of a sequence of numbers
SeqMax(s, n) == IF n = 0 THEN 0 ELSE Max2(s[n], SeqMax(s, n - 1))

RECURSIVE StepDensities(_, _, _, _)
\* probs = mvn.pdf(points) of the first n samples of one prediction step
StepDensities(draw, step, variance, n) ==
    IF n = 0 THEN << >>
    ELSE Append(StepDensities(draw, step, variance, n - 1),
                Density(SampleOffset(draw, step, n), variance))

RECURSIVE Normalized_raw(_, _, _)
\* the densities as they are, not divided by their maximum
Normalized_raw(probs, top, n) ==
    IF n = 0 THEN << >> ELSE Append(Normalized_raw(probs, top, n - 1), probs[n])

RECURSIVE Normalized(_, _, _)
\* probs / np.max(probs) if np.max(probs) > 0 else probs
Normalized(probs, top, n) ==
    IF n = 0 THEN << >>
    ELSE Append(Normalized(probs, top, n - 1),
                IF top > 0 THEN (probs[n] * Milli) \div top ELSE probs[n])

\* the weights of the samples of one prediction step
StepWeights(draw, step, covariance) ==
    LET probs == StepDensities(draw, step, StepCovariance(covariance, step), NumPoints(step))
    IN Normalized(probs, SeqMax(probs, Len(probs)), Len(probs))

RECURSIVE StepSamples(_, _, _, _)
\* zip(points, probs) of one prediction step, relative to the predicted position
StepSamples(draw, step, weights, n) ==
    IF n = 0 THEN << >>
    ELSE Append(StepSamples(draw, step, weights, n - 1),
                [point |-> SampleOffset(draw, step, n), prob |-> weights[n]])

RECURSIVE CloudFrom(_, _)
\* the samples of steps step..prediction_steps-1 of a draw, each step's samples
\* relative to its predicted position
CloudFrom(draw, step) ==
    IF step >= prediction_steps THEN << >>
    ELSE <<StepSamples(draw, step, StepWeights(draw, step, initial_uncertainty), NumPoints(step))>>
         \o CloudFrom(draw, step + 1)

\* the clouds of the draws (they do not depend on the position): CloudTable[draw][step + 1]
CloudTable == [draw \in DrawsShadow |-> CloudFrom(draw, 0)]

\* predicted_positions[step] = position + time_steps[step] * direction * norm(velocity)
PredictedPosition(position, direction, speed, step) ==
    VAdd(position, VScale(direction, (speed * TimeStep(step)) \div Milli, Milli))

RECURSIVE Placed(_, _, _)
\* the first n samples of a step's cloud moved to the predicted position
Placed(cloud, pred, n) ==
    IF n = 0 THEN << >>
    ELSE Append(Placed(cloud, pred, n - 1),
                [point |-> VAdd(pred, cloud[n].point), prob |-> cloud[n].prob])

RECURSIVE ShadowFrom(_, _, _, _, _)
\* the samples of steps step..prediction_steps-1, in step order
ShadowFrom(position, direction, speed, draw, step) ==
    IF step >= prediction_steps THEN << >>
    ELSE Placed(CloudTable[draw][step + 1],
                PredictedPosition(position, direction, speed, step), NumPoints(step))
         \o ShadowFrom(position, direction, speed, draw, step + 1)

\* ProbabilityShadow.generate_shadow_points; `draw` is the outcome of its random draws
generate_shadow_points(position, velocity, goal, draw) ==
    ShadowFrom(position, Unit(VSub(goal, position)), Norm(velocity), draw, 0)

\* a pair's risk that weighs the first sample only
PairRisk_first_weight(p1, p2, safe) ==
    LET d2 == Norm2(VSub(p1.point, p2.point))
    IN IF d2 < safe * safe /\ p1.prob > 0
       THEN (p1.prob * Milli * (safe - Sqrt(d2))) \div (Milli * safe)
       ELSE 0

\* prob1[i] * prob2[j] * (1 - distance / safe_distance) for a pair within safe_distance, else 0
PairRisk(p1, p2, safe) ==
    LET dx == p1.point[1] - p2.point[1]
        dy == p1.point[2] - p2.point[2]
        dz == p1.point[3] - p2.point[3]
        d2 == dx * dx + dy * dy + dz * dz
    IN IF d2 < safe * safe /\ p1.prob * p2.prob > 0
       THEN (p1.prob * p2.prob * (safe - Sqrt(d2))) \div (Milli * safe)
       ELSE 0

\* the largest element of a non-empty set of numbers
SetMax(S) == CHOOSE x \in S : \A y \in S : y <= x

\* the smallest element of a non-empty set of numbers
SetMin(S) == CHOOSE x \in S : \A y \in S : x <= y

\* ProbabilityShadow.calculate_collision_risk: max_prob starts at 0 and rises to the
\* np.max of every sample's collision_probs
calculate_collision_risk(shadow1, shadow2, safe) ==
    SetMax({0} \cup {PairRisk(shadow1[i], shadow2[j], safe) :
                        i \in 1..Len(shadow1), j \in 1..Len(shadow2)})

\* ------------------------------------------------------------------ drone.py

\* returned by _find_alternative_path when no alternative is found
None == << >>

\* DroneState.initialize(start, goal)
initialize(start, goal) ==
    [position |-> start,
     velocity |-> Zero3,
     goal |-> goal,
     shadow_points |-> << >>,
     path_history |-> <<start>>,
     collision_risk |-> 0,
     rerouting |-> FALSE,
     start_position |-> start,
     rerouting_count |-> 0,
     original_goal |-> goal,
     rerouting_steps |-> 0]

\* DroneState.update_position(new_position)
update_position(drone, new_position) ==
    [drone EXCEPT !.position = new_position,
                  !.path_history = Append(drone.path_history, new_position)]

\* a start_rerouting that leaves rerouting_count alone
start_rerouting_uncounted(drone, new_goal) ==
    [drone EXCEPT !.rerouting = TRUE, !.rerouting_steps = 0, !.goal = new_goal]

\* a start_rerouting that takes the new goal for the original goal too
start_rerouting_moving_original(drone, new_goal) ==
    [drone EXCEPT !.rerouting = TRUE,
                  !.rerouting_steps = 0,
                  !.goal = new_goal,
                  !.original_goal = new_goal,
                  !.rerouting_count = drone.rerouting_count + 1]

\* DroneState.start_rerouting(new_goal)
start_rerouting(drone, new_goal) ==
    [drone EXCEPT !.rerouting = TRUE,
                  !.rerouting_steps = 0,
                  !.goal = new_goal,
                  !.rerouting_count = drone.rerouting_count + 1]

\* a stop_rerouting that leaves the goal alone
stop_rerouting_keeping_goal(drone) ==
    [drone EXCEPT !.rerouting = FALSE, !.rerouting_steps = 0]

\* DroneState.stop_rerouting()
stop_rerouting(drone) ==
    [drone EXCEPT !.rerouting = FALSE,
                  !.rerouting_steps = 0,
                  !.goal = drone.original_goal]

\* ------------------------------------------------------------------ grid.py

\* _update_shadow: the drone with its shadow regenerated from its position, velocity and goal
update_shadow(drone, draw) ==
    [drone EXCEPT !.shadow_points =
        generate_shadow_points(drone.position, drone.velocity, drone.goal, draw)]

\* the average, over the drones `others`, of the risks against their shadows
MaxRisk_average(shadow, all, others) ==
    LET RECURSIVE total(_)
        total(n) ==
            IF n = 0
            THEN 0
            ELSE calculate_collision_risk(shadow, all[others[n]].shadow_points, safe_distance)
                     + total(n - 1)
    IN total(Len(others)) \div Len(others)

\* max(calculate_collision_risk(shadow, other.shadow_points, safe_distance)
\*     for other_id, other in drones.items() if other_id != drone_id),
\* over the drones `others`; the caller excludes the empty case
MaxRisk(shadow, all, others) ==
    SetMax({calculate_collision_risk(shadow, all[others[n]].shadow_points, safe_distance) :
               n \in 1..Len(others)})

\* the ids of the dict other than drone_id, in the dict's order
Others(ids, drone_id) == SelectSeq(ids, LAMBDA i : i # drone_id)

\* the radii and the angles np.linspace(-pi / 2, pi / 2, 8) of the search, the
\* angles by their cosine and sine in thousandths
radii == <<500, 1000, 1500>>

angle_cos == <<0, 434, 782, 975, 975, 782, 434, 0>>

angle_sin == <<-1000, -901, -623, -223, 223, 623, 901, 1000>>

\* rotation @ direction_to_goal: a rotation about the vertical axis
Rotate(v, k) ==
    <<RDiv(angle_cos[k] * v[1] - angle_sin[k] * v[2], Milli),
      RDiv(angle_sin[k] * v[1] + angle_cos[k] * v[2], Milli),
      v[3]>>

\* alt_goal of the trial of radius radii[r] and angle k
alt_goal(drone, r, k) ==
    LET direction_to_goal == Unit(VSub(drone.original_goal, drone.position))
        alternative_direction == Rotate(direction_to_goal, k)
    IN Clip(VAdd(drone.position, VScale(alternative_direction, radii[r], Milli)), space_size)

\* float('inf')
Infinity == Milli * Milli

\* the number of trials of a search
NumTrials == Len(radii) * Len(angle_cos)

\* The outcomes of the random draws of one search that the model distinguishes:
\* every trial's cloud is draw 1, every trial's cloud is draw 2, or they alternate.
Streams == {1, 2, 3}

\* the draw of the t-th _update_shadow of a search
TrialDraw(stream, t) == IF stream \in Draws THEN stream ELSE (t % Cardinality(Draws)) + 1

\* alt_goal of the t-th trial, radii outermost
trial_goal(drone, t) ==
    alt_goal(drone, ((t - 1) \div Len(angle_cos)) + 1, ((t - 1) % Len(angle_cos)) + 1)

\* drone.shadow_points of the t-th trial: the shadow toward alt_goal
trial_shadow(drone, stream, t) ==
    generate_shadow_points(drone.position, drone.velocity, trial_goal(drone, t),
                           TrialDraw(stream, t))

\* lowest_risk and best_alternative after the loops: `risk < lowest_risk` keeps the
\* first trial of the least risk.  Trials whose shadows are equal have the same risk,
\* which is computed once for them.
Search(drone, all, others, stream) ==
    LET shadow == [t \in 1..NumTrials |-> trial_shadow(drone, stream, t)]
        risk_of == [points \in {shadow[t] : t \in 1..NumTrials} |->
                       MaxRisk(points, all, others)]
        lowest == SetMin({risk_of[points] : points \in DOMAIN risk_of})
        best == SetMin({t \in 1..NumTrials : risk_of[shadow[t]] = lowest})
    IN [lowest_risk |-> lowest, best_alternative |-> trial_goal(drone, best)]

\* a _find_alternative_path that returns best_alternative whatever its risk
find_alternative_path_unchecked(drone, all, others, stream) ==
    LET found == Search(drone, all, others, stream)
    IN [result |-> found.best_alternative,
        lowest_risk |-> found.lowest_risk,
        drone |-> update_shadow(drone, TrialDraw(stream, NumTrials + 1)),
        trials |-> NumTrials]

\* _find_alternative_path: what it returns, the drone as it leaves it (its goal
\* restored, its shadow regenerated by the last trial's _update_shadow), and the
\* number of trials it ran
find_alternative_path(drone, all, others, stream) ==
    IF Norm2(VSub(drone.original_goal, drone.position)) > 0
    THEN LET found == Search(drone, all, others, stream)
         IN [result |-> IF found.lowest_risk < drone.collision_risk
                        THEN found.best_alternative ELSE None,
             lowest_risk |-> found.lowest_risk,
             drone |-> update_shadow(drone, TrialDraw(stream, NumTrials + 1)),
             trials |-> NumTrials]
    ELSE [result |-> None, lowest_risk |-> Infinity, drone |-> drone, trials |-> 0]

\* an exit check whose hysteresis band lies above the threshold, not below it
exit_check_wide(drone) ==
    IF drone.rerouting
    THEN LET stepped == [drone EXCEPT !.rerouting_steps = drone.rerouting_steps + 1]
         IN IF stepped.rerouting_steps > rerouting_timeout
               \/ stepped.collision_risk < 2 * collision_threshold
            THEN stop_rerouting(stepped)
            ELSE stepped
    ELSE drone

\* _update_drone, lines 121-129: the exit check of a rerouting drone that has not arrived
exit_check(drone) ==
    IF drone.rerouting
    THEN LET stepped == [drone EXCEPT !.rerouting_steps = drone.rerouting_steps + 1]
         IN IF stepped.rerouting_steps > rerouting_timeout
               \/ 2 * stepped.collision_risk < collision_threshold
            THEN stop_rerouting(stepped)
            ELSE stepped
    ELSE drone

\* a move that leaves new_pos unclipped
move_unclipped(drone, dt, noise) ==
    LET direction_to_goal == VSub(drone.goal, drone.position)
        distance_to_goal == Norm(direction_to_goal)
    IN IF Norm2(direction_to_goal) > 0
       THEN LET velocity == VScale(direction_to_goal, nominal_speed + noise, distance_to_goal)
            IN update_position([drone EXCEPT !.velocity = velocity],
                               VAdd(drone.position, VScale(velocity, dt, 10)))
       ELSE drone

\* _update_drone, lines 131-140: the move toward the current goal; dt in tenths
move(drone, dt, noise) ==
    LET direction_to_goal == VSub(drone.goal, drone.position)
        distance_to_goal == Norm(direction_to_goal)
    IN IF Norm2(direction_to_goal) > 0
       THEN LET speed == nominal_speed + noise
                velocity == VScale(direction_to_goal, speed, distance_to_goal)
                new_pos == VAdd(drone.position, VScale(velocity, dt, 10))
            IN update_position([drone EXCEPT !.velocity = velocity], Clip(new_pos, space_size))
       ELSE drone

\* an arrival test that asks for the goal itself: distance > 0
not_arrived_exact(drone) == Norm2(VSub(drone.original_goal, drone.position)) > 0

\* has the drone not arrived: distance > 0.1
not_arrived(drone) ==
    Norm2(VSub(drone.original_goal, drone.position)) > arrival_distance * arrival_distance

\* an advance that runs the exit check and the move wherever the drone is
advance_ungated(drone, dt, noise, draw) ==
    update_shadow(move(exit_check(drone), dt, noise), draw)

\* _update_drone, lines 118-142: the drone after the exit check, the move and _update_shadow
advance(drone, dt, noise, draw) ==
    update_shadow(IF not_arrived(drone) THEN move(exit_check(drone), dt, noise) ELSE drone, draw)

\* _update_drone, lines 155-158: the rerouting check, given the outcome of the search
reroute(drone, search) ==
    IF search.result # None THEN start_rerouting(search.drone, search.result) ELSE search.drone

\* SimulationMetrics.create_from_state: completion_percentages[drone_id], in thousandths
\* of a percent
completion_percentage(drone) ==
    LET total_distance == Norm(VSub(drone.goal, drone.start_position))
        current_distance == Norm(VSub(drone.goal, drone.position))
    IN IF total_distance > 0
       THEN Min2(100 * Milli - (100 * Milli * current_distance) \div total_distance, 100 * Milli)
       ELSE 100 * Milli

RECURSIVE PathLength(_, _)
\* total_distances[drone_id]: the length of the first n entries of path_history
PathLength(path, n) ==
    IF n <= 1 THEN 0 ELSE Norm(VSub(path[n], path[n - 1])) + PathLength(path, n - 1)

RECURSIVE SumRisk(_, _, _)
SumRisk(all, ids, n) ==
    IF n = 0 THEN 0 ELSE all[ids[n]].collision_risk + SumRisk(all, ids, n - 1)

RECURSIVE TopRisk(_, _, _)
TopRisk(all, ids, n) ==
    IF n = 0 THEN 0 ELSE Max2(all[ids[n]].collision_risk, TopRisk(all, ids, n - 1))

\* SimulationMetrics.create_from_state(timestamp, drones), for a non-empty dict; the
\* wall-clock timestamp is left out
create_from_state(all, ids) ==
    [average_collision_risk |-> SumRisk(all, ids, Len(ids)) \div Len(ids),
     max_collision_risk |-> TopRisk(all, ids, Len(ids)),
     total_distance_traveled |->
         [i \in DOMAIN all |-> PathLength(all[i].path_history, Len(all[i].path_history))],
     average_velocity |-> [i \in DOMAIN all |-> Norm(all[i].velocity)],
     rerouting_events |-> [i \in DOMAIN all |-> all[i].rerouting_count],
     completion_percentage |-> [i \in DOMAIN all |-> completion_percentage(all[i])]]

\* ------------------------------------------------------------------ inputs and bounds

\* the number of update() calls of a run
MaxTicks == 3

\* the number of update() calls of a long run
MaxTicksLong == 53

\* the drone ids
Ids == {"a", "b", "c"}

\* The (start, goal) pairs handed to initialize_drone, by scenario:
\*   1  a climbs straight up to a goal on the ceiling; b hovers beside a's path,
\*      within the arrival distance of its goal
\*   2  a flies level past b, which hovers at its goal beside a's path
\*   3  a hovers within the arrival distance of its goal, b hovers at its goal
\*   4  a flies level past b and c, which hover at their goals on either side of its path
\*   5  a flies a short diagonal leg to its goal, beside which b hovers at its own goal
Placement ==
    << [a |-> << <<1000, 1000, 956>>, <<1000, 1000, 1000>> >>,
        b |-> << <<1320, 1000, 972>>, <<1325, 1000, 972>> >>],
       [a |-> << <<1000, 984, 500>>, <<1000, 1600, 500>> >>,
        b |-> << <<1320, 1000, 500>>, <<1320, 1000, 500>> >>],
       [a |-> << <<1000, 1000, 500>>, <<1005, 1000, 500>> >>,
        b |-> << <<1320, 1000, 500>>, <<1320, 1000, 500>> >>],
       [a |-> << <<1000, 984, 500>>, <<1000, 1600, 500>> >>,
        b |-> << <<1320, 1000, 500>>, <<1320, 1000, 500>> >>,
        c |-> << <<1000, 1300, 500>>, <<1000, 1300, 500>> >>],
       [a |-> << <<970, 970, 500>>, <<1000, 1000, 500>> >>,
        b |-> << <<1320, 1000, 500>>, <<1320, 1000, 500>> >>] >>

\* the scenarios of a run and of a long run
Scenarios == {1, 2}

ScenariosLong == {3}

\* the outcomes of the random draws a long run follows
DrawsLong == {2}

StreamsLong == {1}

\* the scenario of a run of three drones, and the number of its update() calls
ScenariosTrio == {4}

MaxTicksTrio == 2

\* the scenario of a run that is updated again and again, and the number of its update() calls
ScenariosFlight == {5}

MaxTicksFlight == 4

\* the values of dt handed to update(), in tenths
DtChoices == {1}

\* ------------------------------------------------------------------ state

VARIABLES
    drones,           \* self.drones: drone id -> DroneState
    order,            \* the insertion order of self.drones, which its iteration follows
    metrics_history,  \* self.metrics_history
    cursor,           \* 0 outside update(); inside, the index in `order` of the next drone
    dt,               \* the argument of the running update()
    ticks,            \* the number of update() calls so far
    raised,           \* the exception the last update() ended with, or "none"
    scenario,         \* the scenario the placements come from, 0 before the first
    tick_start,       \* history: every drone's shadow_points when the running update() began
    last              \* history: per drone, what its last _update_drone did

vars ==
    <<drones, order, metrics_history, cursor, dt, ticks, raised, scenario, tick_start, last>>

\* the history of a drone no _update_drone has run for
NoCall ==
    [exited |-> FALSE, searched |-> FALSE, lowest_risk |-> Infinity, trials |-> 0,
     found |-> FALSE, at_check |-> FALSE, started |-> FALSE, entered_now |-> FALSE,
     seen |-> << >>, entered |-> 0, since |-> 0,
     was_rerouting |-> FALSE, had_risk |-> 0, had_steps |-> 0, had_goal |-> Zero3,
     had_count |-> 0, moved |-> FALSE,
     own |-> << >>, kept |-> TRUE, kept_shadow |-> TRUE, was_arrived |-> FALSE,
     had_position |-> Zero3, had_velocity |-> Zero3, entered_before |-> FALSE]

Init ==
    /\ drones = << >>
    /\ order = << >>
    /\ metrics_history = << >>
    /\ cursor = 0
    /\ dt = 0
    /\ ticks = 0
    /\ raised = "none"
    /\ scenario = 0
    /\ tick_start = << >>
    /\ last = << >>

\* ProbabilityShadowGrid.initialize_drone(drone_id, start, goal)
InitializeDrone(scenarios, draws) ==
    \E s \in scenarios, id \in Ids, draw \in draws :
        /\ cursor = 0
        /\ ticks = 0
        /\ id \in DOMAIN Placement[s]
        /\ id \notin DOMAIN drones
        /\ scenario \in {0, s}
        /\ drones' = drones @@ (id :> update_shadow(initialize(Placement[s][id][1],
                                                               Placement[s][id][2]), draw))
        /\ order' = Append(order, id)
        /\ scenario' = s
        /\ last' = last @@ (id :> NoCall)
        /\ UNCHANGED <<metrics_history, cursor, dt, ticks, raised, tick_start>>

\* update(dt) is called: its loop over self.drones.items() starts
BeginUpdate(max) ==
    \E d \in DtChoices :
        /\ cursor = 0
        /\ ticks < max
        /\ cursor' = 1
        /\ dt' = d
        /\ ticks' = ticks + 1
        /\ raised' = "none"
        /\ tick_start' = [i \in DOMAIN drones |-> drones[i].shadow_points]
        /\ UNCHANGED <<drones, order, metrics_history, scenario, last>>

\* the outcomes of np.random.normal(0, 0.05) at line 136, which runs only if the drone moves
speed_noise(drone) ==
    IF not_arrived(drone) /\ Norm2(VSub(exit_check(drone).goal, drone.position)) > 0
    THEN SpeedNoise ELSE {0}

\* _update_drone, lines 118-153: the drone with its collision_risk computed
assess(drone, others, noise, draw) ==
    LET advanced == advance(drone, dt, noise, draw)
    IN [advanced EXCEPT !.collision_risk =
           MaxRisk(advanced.shadow_points, drones, others)]

\* _update_drone, line 155: does the drone search for an alternative
searches(drone) == drone.collision_risk > collision_threshold /\ ~drone.rerouting

\* the outcome of line 156 for a drone that searches, and no search for one that does not
search_of(drone, others, stream) ==
    IF searches(drone)
    THEN find_alternative_path(drone, drones, others, stream)
    ELSE [result |-> None, lowest_risk |-> Infinity, drone |-> drone, trials |-> 0]

\* the history of one _update_drone: the drone before it, after line 153 and as it returns
history(before, assessed, search, after, others, entered, since, entered_before) ==
    [exited |-> before.rerouting /\ ~assessed.rerouting,
     searched |-> searches(assessed),
     lowest_risk |-> search.lowest_risk,
     trials |-> search.trials,
     found |-> search.result # None,
     at_check |-> assessed.rerouting,
     started |-> \/ after.rerouting # assessed.rerouting
                 \/ after.goal # assessed.goal
                 \/ after.rerouting_steps # assessed.rerouting_steps
                 \/ after.rerouting_count # assessed.rerouting_count,
     entered_now |-> ~assessed.rerouting /\ after.rerouting,
     seen |-> [o \in {others[n] : n \in 1..Len(others)} |-> drones[o].shadow_points],
     entered |-> entered + IF ~assessed.rerouting /\ after.rerouting THEN 1 ELSE 0,
     since |-> IF ~after.rerouting \/ ~assessed.rerouting THEN 0 ELSE since + 1,
     was_rerouting |-> before.rerouting,
     had_risk |-> before.collision_risk,
     had_steps |-> before.rerouting_steps,
     had_goal |-> before.goal,
     had_count |-> before.rerouting_count,
     moved |-> Len(after.path_history) > Len(before.path_history),
     own |-> assessed.shadow_points,
     kept |-> search.drone = [assessed EXCEPT !.shadow_points = search.drone.shadow_points],
     kept_shadow |-> search.drone.shadow_points = assessed.shadow_points,
     was_arrived |-> ~not_arrived(before),
     had_position |-> before.position,
     had_velocity |-> before.velocity,
     entered_before |-> entered_before]

\* one iteration of update()'s loop: _update_drone(drone_id, dt) returns
UpdateDrone(draws, streams) ==
    /\ cursor \in 1..Len(order)
    /\ Len(Others(order, order[cursor])) > 0
    /\ \E noise \in speed_noise(drones[order[cursor]]), draw \in draws :
        \E assessed \in {assess(drones[order[cursor]], Others(order, order[cursor]), noise, draw)} :
        \E stream \in IF searches(assessed) THEN streams ELSE {1} :
        \E search \in {search_of(assessed, Others(order, order[cursor]), stream)} :
        \E after \in {reroute(assessed, search)} :
        LET id == order[cursor]
        IN /\ drones' = [drones EXCEPT ![id] = after]
           /\ last' = [last EXCEPT ![id] =
                  history(drones[id], assessed, search, after, Others(order, id),
                          last[id].entered, last[id].since, last[id].entered_now)]
    /\ cursor' = cursor + 1
    /\ UNCHANGED <<order, metrics_history, dt, ticks, raised, scenario, tick_start>>

\* one iteration of update()'s loop for the only drone of the dict: max() of an empty
\* sequence raises ValueError at line 145, after the exit check, the move and
\* _update_shadow; the exception ends update()
UpdateDroneRaises(draws) ==
    /\ cursor \in 1..Len(order)
    /\ Len(Others(order, order[cursor])) = 0
    /\ \E noise \in speed_noise(drones[order[cursor]]), draw \in draws :
        \E advanced \in {advance(drones[order[cursor]], dt, noise, draw)} :
        LET id == order[cursor]
        IN /\ drones' = [drones EXCEPT ![id] = advanced]
           /\ last' = [last EXCEPT ![id] =
                  [NoCall EXCEPT !.exited = drones[id].rerouting /\ ~advanced.rerouting,
                                 !.entered = last[id].entered,
                                 !.was_rerouting = drones[id].rerouting,
                                 !.had_risk = drones[id].collision_risk,
                                 !.had_steps = drones[id].rerouting_steps,
                                 !.had_goal = drones[id].goal,
                                 !.had_count = drones[id].rerouting_count,
                                 !.moved = Len(advanced.path_history)
                                               > Len(drones[id].path_history),
                                 !.own = advanced.shadow_points,
                                 !.was_arrived = ~not_arrived(drones[id]),
                                 !.had_position = drones[id].position,
                                 !.had_velocity = drones[id].velocity,
                                 !.entered_before = last[id].entered_now]]
    /\ cursor' = 0
    /\ raised' = "ValueError"
    /\ UNCHANGED <<order, metrics_history, dt, ticks, scenario, tick_start>>

\* the loop is over: update() appends the metrics record and returns
AppendMetrics ==
    /\ cursor = Len(order) + 1
    /\ Len(order) > 0
    /\ metrics_history' = Append(metrics_history, create_from_state(drones, order))
    /\ cursor' = 0
    /\ UNCHANGED <<drones, order, dt, ticks, raised, scenario, tick_start, last>>

\* update() of an empty dict: np.max of the empty list of risks raises ValueError in
\* create_from_state
AppendMetricsRaises ==
    /\ cursor = Len(order) + 1
    /\ Len(order) = 0
    /\ cursor' = 0
    /\ raised' = "ValueError"
    /\ UNCHANGED <<drones, order, metrics_history, dt, ticks, scenario, tick_start, last>>

Next ==
    \/ InitializeDrone(Scenarios, Draws)
    \/ BeginUpdate(MaxTicks)
    \/ UpdateDrone(Draws, Streams)
    \/ UpdateDroneRaises(Draws)
    \/ AppendMetrics
    \/ AppendMetricsRaises

Spec == Init /\ [][Next]_vars

\* a long run of one scenario under one outcome of the random draws
NextLong ==
    \/ InitializeDrone(ScenariosLong, DrawsLong)
    \/ BeginUpdate(MaxTicksLong)
    \/ UpdateDrone(DrawsLong, StreamsLong)
    \/ UpdateDroneRaises(DrawsLong)
    \/ AppendMetrics
    \/ AppendMetricsRaises

SpecLong == Init /\ [][NextLong]_vars

\* a run of three drones
NextTrio ==
    \/ InitializeDrone(ScenariosTrio, Draws)
    \/ BeginUpdate(MaxTicksTrio)
    \/ UpdateDrone(Draws, StreamsLong)
    \/ UpdateDroneRaises(Draws)
    \/ AppendMetrics
    \/ AppendMetricsRaises

SpecTrio == Init /\ [][NextTrio]_vars

\* a run whose driver goes on calling update()
NextFlight ==
    \/ InitializeDrone(ScenariosFlight, Draws)
    \/ BeginUpdate(MaxTicksFlight)
    \/ UpdateDrone(Draws, StreamsLong)
    \/ UpdateDroneRaises(Draws)
    \/ AppendMetrics
    \/ AppendMetricsRaises

\* The run goes on: the loop of a running update() reaches its next drone or its end, and
\* the driver calls update() again while it has calls left. Every step of NextFlight
\* other than initialize_drone changes cursor, and one is possible exactly where the first
\* conjunct holds, so this is the step of NextFlight that changes cursor, written without
\* the work of _update_drone.
UpdateProceeds ==
    /\ ~(cursor = 0 /\ ticks >= MaxTicksFlight)
    /\ cursor' \in (0..(Len(order) + 1)) \ {cursor}

SpecFlight == Init /\ [][NextFlight]_vars /\ WF_cursor(UpdateProceeds)

\* the positions, goals and velocities a shadow is generated from on its own
PositionsShadow ==
    {<<1000, 1000, 500>>, <<0, 0, 0>>, <<2000, 2000, 1000>>, <<300, 1700, 40>>}

GoalsShadow == {<<1000, 1000, 500>>, <<1000, 1600, 500>>, <<1800, 200, 900>>}

VelocitiesShadow == {Zero3, <<0, 155, 0>>, <<-90, 80, 90>>}

\* _update_shadow(drone_id) of a drone with any position, velocity and goal
UpdateShadow ==
    \E position \in PositionsShadow, goal \in GoalsShadow,
       velocity \in VelocitiesShadow, draw \in DrawsShadow :
        /\ cursor = 0
        /\ ticks = 0
        /\ drones' = ("a" :> update_shadow([initialize(position, goal)
                                               EXCEPT !.velocity = velocity], draw))
        /\ order' = <<"a">>
        /\ last' = ("a" :> NoCall)
        /\ UNCHANGED <<metrics_history, cursor, dt, ticks, raised, scenario, tick_start>>

\* shadows generated on their own
SpecShadow == Init /\ [][UpdateShadow]_vars

\* ------------------------------------------------------------------ properties

\* every coordinate of v lies in [0, space_size] on its axis
InBounds(v) == \A k \in 1..3 : 0 <= v[k] /\ v[k] <= space_size[k]

\* has _update_drone returned for drone i in the running or the last update()
UpdatedThisTick(i) ==
    /\ ticks > 0
    /\ \E n \in 1..Len(order) : order[n] = i /\ (cursor > n \/ (cursor = 0 /\ raised = "none"))

\* C1: in every state reached by initialize_drone and update(dt), every agent with
\* rerouting = FALSE has its goal equal to original_goal and rerouting_steps = 0.
C1_NominalHasOriginalGoal ==
    \A i \in DOMAIN drones :
        ~drones[i].rerouting =>
            drones[i].goal = drones[i].original_goal /\ drones[i].rerouting_steps = 0

\* an agent has come back from an alternate goal other than its original goal
C1_Witness ==
    \E i \in DOMAIN drones :
        /\ last[i].exited
        /\ ~drones[i].rerouting
        /\ last[i].had_goal # drones[i].original_goal
        /\ last[i].had_steps > 0

\* C2: no agent has rerouting = TRUE while its goal equals its original_goal: the
\* alternate goal the search chooses is never the original goal.
C2_AlternateGoalDiffers ==
    \A i \in DOMAIN drones : drones[i].rerouting => drones[i].goal # drones[i].original_goal

\* C3: start_rerouting takes effect in a tick only if the agent was not rerouting at the
\* rerouting check, its fresh collision_risk exceeds collision_threshold and the search
\* found a candidate of strictly lower risk; an agent that was Nominal and whose search
\* found no strictly lower candidate stays Nominal with goal, rerouting_steps and
\* rerouting_count unchanged.
C3_EntersOnlyOnLowerCandidate ==
    \A i \in DOMAIN drones :
        /\ last[i].started =>
               /\ ~last[i].at_check
               /\ drones[i].collision_risk > collision_threshold
               /\ last[i].searched
               /\ last[i].trials > 0
               /\ last[i].lowest_risk < drones[i].collision_risk
        /\ (last[i].searched /\ ~last[i].was_rerouting
                /\ ~(last[i].lowest_risk < drones[i].collision_risk)) =>
               /\ ~drones[i].rerouting
               /\ drones[i].goal = last[i].had_goal
               /\ drones[i].rerouting_steps = last[i].had_steps
               /\ drones[i].rerouting_count = last[i].had_count

\* one agent has entered Rerouting on a strictly lower candidate while another, over the
\* threshold too, found none and stayed Nominal
C3_Witness ==
    /\ \E i \in DOMAIN drones :
           /\ last[i].entered_now
           /\ ~last[i].was_rerouting
           /\ drones[i].goal # drones[i].original_goal
           /\ last[i].lowest_risk < drones[i].collision_risk
    /\ \E j \in DOMAIN drones :
           /\ last[j].searched
           /\ last[j].trials > 0
           /\ ~last[j].found
           /\ ~drones[j].rerouting

\* C4: an agent that is Rerouting when a tick starts is returned to Nominal by that
\* tick's exit check when its incremented step counter exceeds rerouting_timeout or its
\* collision_risk is below half the collision_threshold.
C4_ExitsOnTimeoutOrLowRisk ==
    \A i \in DOMAIN drones :
        (/\ UpdatedThisTick(i)
         /\ last[i].was_rerouting
         /\ \/ last[i].had_steps + 1 > rerouting_timeout
            \/ 2 * last[i].had_risk < collision_threshold)
        => last[i].exited

\* C5: an agent that enters Rerouting is back in Nominal within rerouting_timeout + 1
\* later ticks, wherever it is.
C5_ReroutingIsTemporary ==
    \A i \in DOMAIN drones : drones[i].rerouting => last[i].since <= rerouting_timeout + 1

\* C6: rerouting_count never decreases, grows by exactly 1 where an agent goes from
\* Nominal to Rerouting and by nothing anywhere else, so it equals the number of times
\* the agent has entered Rerouting.
C6_CountsEntries ==
    \A i \in DOMAIN drones :
        /\ drones[i].rerouting_count = last[i].entered
        /\ drones[i].rerouting_count =
               last[i].had_count + IF last[i].entered_now THEN 1 ELSE 0

\* an agent has entered Rerouting, left it and entered it again
C6_Witness ==
    \E i \in DOMAIN drones :
        /\ drones[i].rerouting_count = 2
        /\ last[i].exited
        /\ last[i].entered_now

\* C7: with exactly one agent in the grid, every update() returns and leaves the agent
\* with collision_risk = 0 and rerouting = FALSE.
C7_SingleAgentHasNoRisk ==
    (Len(order) = 1 /\ ticks > 0 /\ cursor = 0) =>
        /\ raised = "none"
        /\ drones[order[1]].collision_risk = 0
        /\ ~drones[order[1]].rerouting

\* C8: every update(dt) returns without an exception, a search runs at most 24 trials,
\* and metrics_history holds one record per update() called.
C8_UpdateCompletes ==
    /\ \A i \in DOMAIN drones : last[i].trials <= 24
    /\ cursor = 0 => (raised = "none" /\ Len(metrics_history) = ticks)

\* C9: after a tick in which an agent moved, its position and the entry appended to
\* path_history lie in [0, space_size] on every axis; the alternate goal of a rerouting
\* agent lies in [0, space_size] too.
C9_StaysInBounds ==
    \A i \in DOMAIN drones :
        /\ last[i].moved =>
               /\ InBounds(drones[i].position)
               /\ InBounds(drones[i].path_history[Len(drones[i].path_history)])
        /\ drones[i].rerouting => InBounds(drones[i].goal)

\* an agent's move was clipped at the ceiling while another agent steers for an
\* alternate goal
C9_Witness ==
    /\ \E i \in DOMAIN drones :
           LET n == Len(drones[i].path_history)
           IN /\ last[i].moved
              /\ UpdatedThisTick(i)
              /\ drones[i].path_history[n - 1][3] + RDiv(drones[i].velocity[3] * dt, 10)
                     > space_size[3]
              /\ drones[i].position[3] = space_size[3]
    /\ \E j \in DOMAIN drones :
           drones[j].rerouting /\ drones[j].goal # drones[j].original_goal

\* C10: the risk _update_drone computes for an agent reads, of every other agent, the
\* shadow that agent had when the update() began.
C10_ReadsTickStartShadows ==
    \A i \in DOMAIN drones :
        UpdatedThisTick(i) =>
            \A o \in DOMAIN last[i].seen : last[i].seen[o] = tick_start[o]

\* C11: the search is read-only: when _find_alternative_path has run its trials and
\* returned, the searching agent's goal and shadow_points are the ones it had before the
\* search, and so is every other field of the agent.
C11_SearchIsReadOnly ==
    \A i \in DOMAIN drones :
        (last[i].searched /\ last[i].trials > 0) => (last[i].kept /\ last[i].kept_shadow)

\* C12: in every metrics record, the completion percentage of an agent is
\* min(100, 100 * (1 - dist(position, original_goal) / dist(start_position, original_goal))),
\* or 100 when start equals goal: it measures progress toward the original goal, whether
\* or not the agent is Rerouting, and never exceeds 100.
C12_CompletionTowardOriginalGoal ==
    (cursor = 0 /\ raised = "none" /\ ticks > 0 /\ Len(metrics_history) = ticks) =>
        \A i \in DOMAIN drones :
            LET total == Norm(VSub(drones[i].original_goal, drones[i].start_position))
                current == Norm(VSub(drones[i].original_goal, drones[i].position))
                reported == metrics_history[Len(metrics_history)].completion_percentage[i]
            IN /\ reported <= 100 * Milli
               /\ reported = IF total > 0
                             THEN Min2(100 * Milli - (100 * Milli * current) \div total,
                                       100 * Milli)
                             ELSE 100 * Milli

\* C13: once an agent is within the arrival distance of its original goal and Nominal,
\* the completion percentage the metrics record reports for it is exactly 100.
C13_ArrivedReportsHundred ==
    (cursor = 0 /\ raised = "none" /\ ticks > 0 /\ Len(metrics_history) = ticks) =>
        \A i \in DOMAIN drones :
            (~not_arrived(drones[i]) /\ ~drones[i].rerouting) =>
                metrics_history[Len(metrics_history)].completion_percentage[i] = 100 * Milli

\* the safe distances the risk of two shadows is examined at
RiskDistances == {safe_distance \div 2, safe_distance}

\* the pairs of indices of two shadows whose samples are less than d apart
Within(A, B, d) ==
    {pair \in (1..Len(A)) \X (1..Len(B)) :
        Norm2(VSub(A[pair[1]].point, B[pair[2]].point)) < d * d}

\* weightA * weightB * (1 - distance / d) of the pair of samples a and b
Weighted(a, b, d) ==
    IF a.prob * b.prob = 0
    THEN 0
    ELSE (a.prob * b.prob * (d - Sqrt(Norm2(VSub(a.point, b.point))))) \div (Milli * d)

\* C14: calculate_collision_risk is symmetric, risk(A, B, d) = risk(B, A, d), for
\* non-empty shadows; it is 0 whenever no sample of A is within d of a sample of B, and
\* otherwise it is the maximum, over the pairs within d, of
\* weightA * weightB * (1 - distance / d), not their sum.
C14_RiskIsSymmetricMaximum ==
    \A m, n \in 1..Len(order), d \in RiskDistances :
        m < n =>
            LET A == drones[order[m]].shadow_points
                B == drones[order[n]].shadow_points
                risk == calculate_collision_risk(A, B, d)
            IN /\ risk = calculate_collision_risk(B, A, d)
               /\ Within(A, B, d) = {} => risk = 0
               /\ Within(A, B, d) # {} =>
                      risk = SetMax({Weighted(A[pair[1]], B[pair[2]], d) :
                                        pair \in Within(A, B, d)})

\* two different shadows have several pairs of positive risk within safe_distance, so that
\* the maximum is less than the sum, and no pair within half of it
C14_Witness ==
    \E m, n \in 1..Len(order) :
        LET A == drones[order[m]].shadow_points
            B == drones[order[n]].shadow_points
        IN /\ m < n
           /\ {A[k].point[1] - drones[order[m]].position[1] : k \in 1..Len(A)}
                  # {B[k].point[1] - drones[order[n]].position[1] : k \in 1..Len(B)}
           /\ Cardinality({pair \in Within(A, B, safe_distance) :
                              Weighted(A[pair[1]], B[pair[2]], safe_distance) > 0}) >= 2
           /\ calculate_collision_risk(A, B, safe_distance) > 0
           /\ Within(A, B, safe_distance \div 2) = {}

\* C15: after every tick, each agent's collision_risk lies in [0, 1] and is the maximum,
\* over all other agents, of the pairwise risk between the shadow it had when the risk was
\* computed and that agent's shadow as read at that moment: the maximum, not an average.
C15_RiskIsMaximumOverOthers ==
    \A i \in DOMAIN drones :
        /\ 0 <= drones[i].collision_risk
        /\ drones[i].collision_risk <= Milli
        /\ DOMAIN last[i].seen # {} =>
               /\ \A o \in DOMAIN last[i].seen :
                      calculate_collision_risk(last[i].own, last[i].seen[o], safe_distance)
                          <= drones[i].collision_risk
               /\ \E o \in DOMAIN last[i].seen :
                      calculate_collision_risk(last[i].own, last[i].seen[o], safe_distance)
                          = drones[i].collision_risk

\* an agent's risk is the larger of two different positive pairwise risks, and the search
\* that followed has left it a shadow other than the one the risk was computed from
C15_Witness ==
    \E i \in DOMAIN drones :
        LET risks == {calculate_collision_risk(last[i].own, last[i].seen[o], safe_distance) :
                         o \in DOMAIN last[i].seen}
        IN /\ Cardinality(DOMAIN last[i].seen) = 2
           /\ Cardinality(risks) = 2
           /\ 0 \notin risks
           /\ last[i].searched
           /\ last[i].trials > 0
           /\ drones[i].shadow_points # last[i].own

\* the index in a shadow of the first sample of step k: 1 + sum of 5 + 2j over j < k
FirstOfStep(k) == 1 + 5 * k + k * (k - 1)

\* C16: every shadow generate_shadow_points produces consists, in step order, of exactly
\* 5 + 2k samples for step k = 0..N-1; every weight lies in [0, 1]; in each step at least
\* one sample has weight exactly 1, unless all the densities of the step are zero, in
\* which case all its weights are 0.
C16_ShadowShape ==
    \A i \in DOMAIN drones :
        LET shadow == drones[i].shadow_points
        IN /\ Len(shadow) = FirstOfStep(prediction_steps) - 1
           /\ \A n \in 1..Len(shadow) : 0 <= shadow[n].prob /\ shadow[n].prob <= Milli
           /\ \A k \in 0..(prediction_steps - 1) :
                  LET samples == FirstOfStep(k)..(FirstOfStep(k) + 5 + 2 * k - 1)
                  IN \/ \E n \in samples : shadow[n].prob = Milli
                     \/ \A n \in samples : shadow[n].prob = 0

\* a moving agent's shadow has a step whose weights are all 0
C16_Witness ==
    \E i \in DOMAIN drones :
        /\ drones[i].velocity # Zero3
        /\ drones[i].goal # drones[i].position
        /\ Len(drones[i].shadow_points) = FirstOfStep(prediction_steps) - 1
        /\ \A n \in 1..5 : drones[i].shadow_points[n].prob = 0

\* C17: after initialize_drone, an agent's original_goal and start_position never
\* change: they stay the goal and the start initialize_drone was handed.
C17_OriginalGoalAndStartAreFixed ==
    \A i \in DOMAIN drones :
        /\ drones[i].start_position = Placement[scenario][i][1]
        /\ drones[i].original_goal = Placement[scenario][i][2]

\* an agent has moved, steered for an alternate goal other than its original goal and
\* come back from it
C17_Witness ==
    \E i \in DOMAIN drones :
        /\ last[i].exited
        /\ last[i].moved
        /\ drones[i].rerouting_count > 0
        /\ last[i].had_goal # drones[i].original_goal
        /\ drones[i].position # drones[i].start_position
        /\ drones[i].original_goal = Placement[scenario][i][2]

\* C18: in a tick where an agent starts within the arrival distance of its original
\* goal, its position, velocity and path_history are unchanged and the rerouting state
\* machine is not advanced: rerouting_steps is not incremented and no exit check runs. The
\* agent is still within the arrival distance afterwards, and its shadow and its
\* collision_risk are recomputed all the same.
C18_ArrivalFreezes ==
    \A i \in DOMAIN drones :
        last[i].was_arrived =>
            /\ drones[i].position = last[i].had_position
            /\ drones[i].velocity = last[i].had_velocity
            /\ ~last[i].moved
            /\ ~last[i].exited
            /\ last[i].was_rerouting =>
                   (drones[i].rerouting /\ drones[i].rerouting_steps = last[i].had_steps)
            /\ ~not_arrived(drones[i])
            /\ \E draw \in Draws :
                   last[i].own = generate_shadow_points(drones[i].position, drones[i].velocity,
                                                        last[i].had_goal, draw)
            /\ \A o \in DOMAIN last[i].seen :
                   calculate_collision_risk(last[i].own, last[i].seen[o], safe_distance)
                       <= drones[i].collision_risk
            /\ DOMAIN last[i].seen # {} =>
                   \E o \in DOMAIN last[i].seen :
                       calculate_collision_risk(last[i].own, last[i].seen[o], safe_distance)
                           = drones[i].collision_risk

\* a Rerouting agent within the arrival distance of its original goal, but not at it, has
\* been through a tick that gave it another collision_risk
C18_Witness ==
    \E i \in DOMAIN drones :
        /\ last[i].was_arrived
        /\ last[i].was_rerouting
        /\ drones[i].position # drones[i].original_goal
        /\ drones[i].collision_risk # last[i].had_risk
        /\ 2 * last[i].had_risk < collision_threshold
        /\ UpdatedThisTick(i)

\* C19: the risk the exit check of a tick uses is the collision_risk computed in the
\* previous tick, since the exit check runs before the move, the shadow regeneration and
\* the risk recomputation of its own tick; so an agent that entered Rerouting at the end
\* of the previous tick, its risk above collision_threshold, is never returned to Nominal
\* by the hysteresis condition in this tick.
C19_ExitCheckUsesPreviousRisk ==
    \A i \in DOMAIN drones :
        /\ last[i].exited <=>
               /\ last[i].was_rerouting
               /\ ~last[i].was_arrived
               /\ \/ last[i].had_steps + 1 > rerouting_timeout
                  \/ 2 * last[i].had_risk < collision_threshold
        /\ last[i].entered_before =>
               /\ last[i].was_rerouting
               /\ last[i].had_risk > collision_threshold
               /\ ~last[i].exited

\* an agent that entered Rerouting in the previous tick has moved on in this one and is
\* still Rerouting, although its fresh collision_risk is below half the threshold
C19_Witness ==
    \E i \in DOMAIN drones :
        /\ last[i].entered_before
        /\ ~last[i].was_arrived
        /\ last[i].moved
        /\ UpdatedThisTick(i)
        /\ drones[i].rerouting
        /\ drones[i].rerouting_steps = 1
        /\ 2 * drones[i].collision_risk < collision_threshold

\* C20: at every tick boundary, each agent's shadow_points is the shadow generated from
\* its current position and its current goal; at the end of the tick in which an agent
\* enters Rerouting, the shadow it publishes is the one projected toward the alternate goal.
C20_ShadowFollowsCurrentGoal ==
    (cursor = 0 /\ raised = "none" /\ ticks > 0) =>
        \A i \in DOMAIN drones :
            \E draw \in Draws :
                drones[i].shadow_points =
                    generate_shadow_points(drones[i].position, drones[i].velocity,
                                           drones[i].goal, draw)

\* the square of the distance from drone i to its original goal
ToGo2(i) == Norm2(VSub(drones[i].original_goal, drones[i].position))

\* drone i is within the arrival distance of its original goal, or has entered Rerouting
ArrivedOrRerouted(i) ==
    /\ i \in DOMAIN drones
    /\ \/ ToGo2(i) <= arrival_distance * arrival_distance
       \/ drones[i].rerouting_count > 0

\* C21: an agent whose original goal lies inside the bounds and that stays Nominal comes
\* within the arrival distance of its original goal after finitely many update(0.1)
\* calls; until then each call moves it by about speed * dt toward the goal, and its
\* distance to the goal strictly decreases.
C21_NominalAgentArrives ==
    /\ \A i \in Ids :
           [](i \in DOMAIN drones => <>ArrivedOrRerouted(i))
    /\ [][\A i \in DOMAIN drones :
              (/\ cursor \in 1..Len(order)
               /\ order[cursor] = i
               /\ ~drones[i].rerouting
               /\ ToGo2(i) > arrival_distance * arrival_distance)
              => /\ ToGo2(i)' < ToGo2(i)
                 /\ \/ \E k \in 1..3 : drones'[i].position[k] \in {0, space_size[k]}
                    \/ LET step == Norm(VSub(drones'[i].position, drones[i].position))
                       IN /\ 10 * step >= (nominal_speed - 10) * dt
                          /\ 10 * step <= (nominal_speed + 10) * dt]_vars

\* an agent that never entered Rerouting has come within the arrival distance of its goal
\* in three moves, the last of which carried it past the goal, with update() calls to spare
C21_Witness ==
    \E i \in DOMAIN drones :
        /\ drones[i].rerouting_count = 0
        /\ InBounds(drones[i].original_goal)
        /\ Len(drones[i].path_history) = 4
        /\ last[i].moved
        /\ ToGo2(i) <= arrival_distance * arrival_distance
        /\ drones[i].position # drones[i].original_goal
        /\ ticks < MaxTicksFlight

====
